---- MODULE Spec2Model ----
(***************************************************************************)
(* Model of the bugbusters defect question-answering service:              *)
(*   app.py   - lifespan startup and the /defects/response handler         *)
(*   llm.py   - DataBase, FAISS.semantic_search and the LLM composer       *)
(*   jira_data_loader.py, service_now_loader.py - ingestion into Mongo     *)
(* Text is modelled as sequences of one-character strings so that          *)
(* lower(), upper(), split(), startswith and substring tests are computed  *)
(* the way the Python code computes them.                                  *)
(***************************************************************************)
EXTENDS Integers, Sequences, FiniteSets, TLC

VARIABLES
    store,             \* the Record Store: what DataBase()._load_defect_data returns now
    started,           \* lifespan has run its startup part
    defects_llm,       \* app.defects_llm: {} or {"index", "data"}
    valid_defect_ids,  \* app.valid_defect_ids
    pc,                \* "idle" | "received" | "responded" (one request at a time)
    chat_request,      \* the prompt of the request being served
    response,          \* the JSON body returned, or the Raised marker
    state,             \* composer state that produced the text (branch of _create_prompt)
    prompt,            \* the text _create_prompt returned
    relevant_defects,  \* the candidate set handed to llm.get_response
    indices_scores,    \* result of the last semantic_search
    embedCalls,        \* encoder.encode calls made for the current query
    genCalls,          \* chat.completions.create calls made for the current query
    context_window,    \* LLM.context_window of the composer instance in use
    log,               \* completed turns (composer, session) or loader runs (ingestion)
    similarities,      \* np.dot(defect_embeddings, query_embedding) of the last search
    cleanup_done,      \* app.cleanup_done
    defect_cause,      \* the Mongo collection 'defect_cause', in insertion order
    servicenow_incidents, \* the Mongo collection 'servicenow_incidents'
    db_defect_data     \* db.defect_data of the handler's DataBase() when it returns

vars == <<store, started, defects_llm, valid_defect_ids, pc, chat_request,
          response, state, prompt, relevant_defects, indices_scores,
          embedCalls, genCalls, context_window, log, similarities,
          cleanup_done, defect_cause, servicenow_incidents, db_defect_data>>

(***************************************************************************)
(* Bounds                                                                  *)
(***************************************************************************)
MaxWords == 2      \* phrases per prompt
MaxCalls == 7      \* get_response calls on one composer instance
MaxIndex == 11     \* vectors in the index of the search specification

(***************************************************************************)
(* Strings                                                                 *)
(***************************************************************************)
LowerChars == <<"a","b","c","d","e","f","g","h","i","j","k","l","m",
                "n","o","p","q","r","s","t","u","v","w","x","y","z">>
UpperChars == <<"A","B","C","D","E","F","G","H","I","J","K","L","M",
                "N","O","P","Q","R","S","T","U","V","W","X","Y","Z">>

IndexIn(c, chars) == IF \E i \in 1..Len(chars) : chars[i] = c
                     THEN CHOOSE i \in 1..Len(chars) : chars[i] = c
                     ELSE 0

Digits == <<"0","1","2","3","4","5","6","7","8","9">>

Chars == {LowerChars[i] : i \in 1..26} \cup {UpperChars[i] : i \in 1..26}
         \cup {Digits[i] : i \in 1..10} \cup {" ", "-"}

UpperMap == [c \in Chars |-> IF IndexIn(c, LowerChars) > 0
                             THEN UpperChars[IndexIn(c, LowerChars)] ELSE c]
LowerMap == [c \in Chars |-> IF IndexIn(c, UpperChars) > 0
                             THEN LowerChars[IndexIn(c, UpperChars)] ELSE c]

\* str.upper()
upper(s) == [i \in 1..Len(s) |-> UpperMap[s[i]]]

\* str.lower()
lower(s) == [i \in 1..Len(s) |-> LowerMap[s[i]]]

\* str.startswith(prefix)
startswith(s, prefix) ==
    /\ Len(prefix) <= Len(s)
    /\ \A j \in 1..Len(prefix) : s[j] = prefix[j]

\* sub in s
contains(s, sub) ==
    \E i \in 0..(Len(s) - Len(sub)) : \A j \in 1..Len(sub) : s[i + j] = sub[j]

\* str.split(): split on runs of whitespace, no empty words
RECURSIVE splitFrom(_, _, _)
splitFrom(s, i, word) ==
    IF i > Len(s)
    THEN IF word = <<>> THEN <<>> ELSE <<word>>
    ELSE IF s[i] = " "
         THEN IF word = <<>> THEN splitFrom(s, i + 1, <<>>)
              ELSE <<word>> \o splitFrom(s, i + 1, <<>>)
         ELSE splitFrom(s, i + 1, Append(word, s[i]))

split(s) == splitFrom(s, 1, <<>>)

\* " ".join(words)
RECURSIVE joinSpace(_)
joinSpace(words) ==
    IF words = <<>> THEN <<>>
    ELSE IF Len(words) = 1 THEN words[1]
    ELSE words[1] \o <<" ">> \o joinSpace(Tail(words))

SeqToSet(seq) == {seq[i] : i \in 1..Len(seq)}

\* the element of a one-element set: { e(v) : v \in {x} } computes x once
\* and names it v in e, the way a local variable holds a value
TheOne(S) == CHOOSE x \in S : TRUE

\* lexicographic order on strings by position in the character table
CharRankOf(c) == IF IndexIn(c, UpperChars) > 0 THEN 100 + IndexIn(c, UpperChars)
               ELSE IF IndexIn(c, LowerChars) > 0 THEN 200 + IndexIn(c, LowerChars)
               ELSE IF c = "-" THEN 45
               ELSE IF c = " " THEN 32
               ELSE 50 + IndexIn(c, Digits)

CharRankMap == [c \in Chars |-> CharRankOf(c)]
CharRank(c) == CharRankMap[c]

RECURSIVE StrLess(_, _)
StrLess(a, b) ==
    IF b = <<>> THEN FALSE
    ELSE IF a = <<>> THEN TRUE
    ELSE IF CharRank(a[1]) # CharRank(b[1]) THEN CharRank(a[1]) < CharRank(b[1])
    ELSE StrLess(Tail(a), Tail(b))

\* sorted(set of strings)
RECURSIVE sorted(_)
sorted(S) ==
    IF S = {} THEN <<>>
    ELSE LET m == CHOOSE x \in S : \A y \in S \ {x} : StrLess(x, y)
         IN <<m>> \o sorted(S \ {m})

(***************************************************************************)
(* Keyword tables                                                          *)
(***************************************************************************)
SCRUM_prefix == <<"S","C","R","U","M","-">>
INC_prefix == <<"I","N","C">>

k_root == <<"r","o","o","t">>
k_cause == <<"c","a","u","s","e">>
k_why == <<"w","h","y">>
k_solution == <<"s","o","l","u","t","i","o","n">>
k_fix == <<"f","i","x">>
k_resolve == <<"r","e","s","o","l","v","e">>
k_owner == <<"o","w","n","e","r">>
k_who == <<"w","h","o">>
k_list == <<"l","i","s","t">>
k_all_defect == <<"a","l","l"," ","d","e","f","e","c","t">>
k_all == <<"a","l","l">>
k_error == <<"e","r","r","o","r">>
k_log == <<"l","o","g">>
k_exception == <<"e","x","c","e","p","t","i","o","n">>
k_payload == <<"p","a","y","l","o","a","d">>
k_service == <<"s","e","r","v","i","c","e">>
k_kafka == <<"k","a","f","k","a">>
k_mongodb == <<"m","o","n","g","o","d","b">>
k_api == <<"a","p","i">>
k_downstream == <<"d","o","w","n","s","t","r","e","a","m">>
k_notification == <<"n","o","t","i","f","i","c","a","t","i","o","n">>
k_login == <<"l","o","g","i","n">>
k_policy == <<"p","o","l","i","c","y">>

\* app.py line 116
RootSolutionKeywords == {k_root, k_cause, k_why, k_solution, k_fix, k_resolve}
\* app.py line 123
ListingKeywords == {k_owner, k_who, k_list, k_all_defect}
\* llm.py line 187
SolutionKeywords == {k_solution, k_fix, k_resolve}
\* llm.py line 204
RootCauseKeywords == {k_root, k_cause, k_why}

\* LLM.query_types, in dict order
query_types == <<
    [qtype |-> "description", keywords |->
        {<<"w","h","a","t"," ","i","s">>,
         <<"d","e","s","c","r","i","b","e">>,
         <<"e","x","p","l","a","i","n">>,
         <<"t","e","l","l"," ","m","e"," ","a","b","o","u","t">>}],
    [qtype |-> "error",       keywords |-> {k_error, k_log, k_exception, k_payload}],
    [qtype |-> "analysis",    keywords |->
        {<<"a","n","a","l","y","z","e">>,
         <<"c","h","e","c","k">>,
         <<"i","n","v","e","s","t","i","g","a","t","e">>,
         <<"d","e","b","u","g">>}],
    [qtype |-> "impact",      keywords |->
        {<<"i","m","p","a","c","t">>,
         <<"a","f","f","e","c","t">>,
         <<"c","o","n","s","e","q","u","e","n","c","e">>,
         <<"r","e","s","u","l","t">>}],
    [qtype |-> "status",      keywords |->
        {<<"s","t","a","t","u","s">>,
         <<"s","t","a","t","e">>,
         <<"p","r","o","g","r","e","s","s">>,
         <<"c","u","r","r","e","n","t">>}],
    [qtype |-> "validation",  keywords |->
        {<<"t","e","s","t">>,
         <<"v","e","r","i","f","y">>,
         <<"v","a","l","i","d","a","t","e">>,
         <<"q","a">>}],
    [qtype |-> "service",     keywords |-> {k_service, k_kafka, k_mongodb, k_api, k_downstream}] >>

\* the services dict of _format_service_analysis, in dict order
ServiceNames == <<k_kafka, k_mongodb, k_notification, k_login, k_policy>>

\* any(keyword in query for keyword in keywords)
anyKeyword(query, keywords) == \E k \in keywords : contains(query, k)

\* LLM._get_query_type
RECURSIVE queryTypeFrom(_, _)
queryTypeFrom(query_lower, i) ==
    IF i > Len(query_types) THEN "general"
    ELSE IF anyKeyword(query_lower, query_types[i].keywords) THEN query_types[i].qtype
    ELSE queryTypeFrom(query_lower, i + 1)

get_query_type(query) == queryTypeFrom(lower(query), 1)

(***************************************************************************)
(* Records and the Record Store                                            *)
(***************************************************************************)
id_SCRUM1 == <<"S","C","R","U","M","-","1">>
id_SCRUM2 == <<"S","C","R","U","M","-","2">>
id_INC7 == <<"I","N","C","7">>

\* 'key' in d   and   d.get('key', default)
Has(d, k) == k \in DOMAIN d
Get(d, k, default) == IF k \in DOMAIN d THEN d[k] ELSE default

\* the empty dict {}
EmptyDict == [k \in {} |-> k]

\* a tracker defect as create_basic_rca / parse_rca_to_json store it, with logs
rec_SCRUM1 ==
    [bug_id |-> id_SCRUM1,
     Defect_Summary |-> <<"K","a","f","k","a"," ","l","a","g">>,
     owner |-> "alice",
     rootCause |-> [type |-> "dict", description |-> "offset reset",
                    analysis |-> [logs |-> "TimeoutException at poll"]],
     solution |-> "restart consumer",
     url |-> [base |-> "jira", ref |-> id_SCRUM1]]

\* a tracker defect without analysis logs and without a stored url
rec_SCRUM2 ==
    [bug_id |-> id_SCRUM2,
     Defect_Summary |-> <<"s","l","o","w"," ","p","a","g","e">>,
     owner |-> "bob",
     rootCause |-> [type |-> "dict", description |-> "missing index"],
     solution |-> "add index",
     status |-> "Done"]

\* an incident as DataBase._load_defect_data normalises it (llm.py 28-37)
rec_INC7 ==
    [bug_id |-> id_INC7,
     Defect_Summary |-> <<"l","o","g","i","n"," ","d","o","w","n">>,
     owner |-> "carol",
     rootCause |-> [type |-> "dict", description |-> "cert expired",
                    analysis |-> [logs |-> ""]],
     solution |-> "cert expired",
     url |-> [base |-> "servicenow", ref |-> id_INC7]]

id_SCRUM3 == <<"S","C","R","U","M","-","3">>
id_SCRUM4 == <<"S","C","R","U","M","-","4">>
id_SCRUM5 == <<"S","C","R","U","M","-","5">>
id_SCRUM6 == <<"S","C","R","U","M","-","6">>

\* a document parse_rca_to_json stores for an RCA file whose sections are
\* "Defect Summary" and "Error log" only: the log sits under the literal
\* field (jira_data_loader.py 68-69) and there is no rootCause
rec_SCRUM3 ==
    [bug_id |-> id_SCRUM3,
     Defect_Summary |-> <<"M","o","n","g","o","D","B"," ","l","o","g","i","n"," ","l","o","o","p">>,
     owner |-> "dave",
     Error_log |-> "E11000 duplicate key",
     solution |-> "drop index"]

\* a document whose rootCause is a bare string (llm.py 172)
rec_SCRUM4 ==
    [bug_id |-> id_SCRUM4,
     Defect_Summary |-> <<"p","o","l","i","c","y"," ","s","y","n","c">>,
     owner |-> "erin",
     rootCause |-> [type |-> "str", value |-> <<"s","t","a","l","e"," ","c","a","c","h","e">>],
     solution |-> "flush cache",
     status |-> "Open",
     url |-> [base |-> "jira", ref |-> id_SCRUM4]]

\* a document parse_rca_to_json stores for an RCA file without a
\* "Defect Summary" section
rec_SCRUM5 ==
    [bug_id |-> id_SCRUM5,
     owner |-> "Unassigned",
     rootCause |-> [type |-> "dict", description |-> "null pointer"],
     solution |-> "guard the call"]

\* a document with an identifier and a summary only
rec_SCRUM6 ==
    [bug_id |-> id_SCRUM6,
     Defect_Summary |-> <<"a","p","i"," ","t","i","m","e","o","u","t">>]

\* contents the Record Store can have
Collections == { <<>>,
                 <<rec_SCRUM1, rec_SCRUM2, rec_INC7>>,
                 <<rec_SCRUM2, rec_SCRUM1>> }

\* DataBase._load_defect_data: the collection read from the store
load_defect_data(st) == st

\* urljoin(self.jira_base_url, bug_id)
urljoin(base, ref) == [base |-> base, ref |-> ref]

(***************************************************************************)
(* Vector index and similarity search                                      *)
(***************************************************************************)
\* similarity scores in units of 0.00001
Threshold == 30000
TopK == 10
ScoreValues == {30000, 30004, 50000}

\* list.sort(key=..., reverse=True): descending by key, equal keys keep
\* their original relative order
\* variant: equal keys end up in reverse original order
RankDesc_unstable(keys, i) ==
    Cardinality({j \in 1..Len(keys) :
                    keys[j] > keys[i] \/ (keys[j] = keys[i] /\ j > i)})

RankDesc(keys, i) ==
    Cardinality({j \in 1..Len(keys) :
                    keys[j] > keys[i] \/ (keys[j] = keys[i] /\ j < i)})

sortDescending(seq, keys) ==
    TheOne({ [r \in 1..Len(seq) |-> seq[CHOOSE i \in 1..Len(seq) : ranks[i] = r - 1]]
             : ranks \in {[i \in 1..Len(keys) |-> RankDesc(keys, i)]} })

\* seq[:n]
Take(seq, n) == IF Len(seq) <= n THEN seq ELSE SubSeq(seq, 1, n)

\* [(idx, score) for idx, score in enumerate(similarities) if score > threshold]
aboveThreshold(sims, threshold) ==
    SelectSeq([i \in 1..Len(sims) |-> <<i - 1, sims[i]>>],
              LAMBDA p : p[2] > threshold)

\* FAISS.semantic_search, given the similarities np.dot produced
semantic_search(sims, top_k, threshold) ==
    LET above == aboveThreshold(sims, threshold)
    IN Take(sortDescending(above, [i \in 1..Len(above) |-> above[i][2]]), top_k)

\* round(score * 100, 2), in units of 0.01 percent (round half to even)
relevance(score) ==
    LET q == score \div 10
        r == score % 10
    IN IF r < 5 THEN q
       ELSE IF r > 5 THEN q + 1
       ELSE IF q % 2 = 0 THEN q ELSE q + 1

\* defect.copy() with defect['relevance_score'] = ...
withScore(d, score) ==
    [k \in DOMAIN d \cup {"relevance_score"} |->
        IF k = "relevance_score" THEN relevance(score) ELSE d[k]]

\* DataBase.get_defects_by_indices_with_scores; IndexError when a position
\* is outside the collection
scores_out_of_range(defect_data, idx_scores) ==
    \E i \in 1..Len(idx_scores) : idx_scores[i][1] >= Len(defect_data)

get_defects_by_indices_with_scores(defect_data, idx_scores) ==
    [i \in 1..Len(idx_scores) |->
        withScore(defect_data[idx_scores[i][1] + 1], idx_scores[i][2])]

\* self.defect_data after get_defects_by_indices_with_scores: the score is
\* set on defect.copy(), the records of the collection stay as loaded
\* variant: the score is set on the record of the collection itself
defect_data_scored_in_place(defect_data, idx_scores) ==
    [p \in 1..Len(defect_data) |->
        IF \E i \in 1..Len(idx_scores) : idx_scores[i][1] = p - 1
        THEN withScore(defect_data[p],
                       idx_scores[CHOOSE i \in 1..Len(idx_scores) :
                                     idx_scores[i][1] = p - 1][2])
        ELSE defect_data[p]]

defect_data_after_scoring(defect_data, idx_scores) ==
    [p \in 1..Len(defect_data) |-> defect_data[p]]

(***************************************************************************)
(* The composer: class LLM                                                 *)
(***************************************************************************)
MaxHistory == 5      \* turns kept in context_window
RenderedTurns == 3   \* turns rendered into a prompt

\* what an operation yields when it raises
Raised == [raised |-> TRUE]
Composed(st, text) == [raised |-> FALSE, state |-> st, text |-> text]

\* [word.upper() for word in query.split() if word.upper().startswith('SCRUM-')]
upper_words(words) == [i \in 1..Len(words) |-> upper(words[i])]

\* variant: the tracker-style tokens in reverse order
scrum_ids_reversed(query) ==
    LET ids == SelectSeq(upper_words(split(query)),
                         LAMBDA w : startswith(w, SCRUM_prefix))
    IN [i \in 1..Len(ids) |-> ids[Len(ids) + 1 - i]]

scrum_ids(query) ==
    SelectSeq(upper_words(split(query)), LAMBDA w : startswith(w, SCRUM_prefix))

\* any(word.upper().startswith(('SCRUM-', 'INC')) for word in query.split())
mentions_identifier(query) ==
    SelectSeq(upper_words(split(query)),
              LAMBDA w : startswith(w, SCRUM_prefix) \/ startswith(w, INC_prefix)) # <<>>

\* next((d for d in relevant_defects if d['bug_id'] == defect_id), None)
matching(defects, defect_id) ==
    SelectSeq(defects, LAMBDA d : d.bug_id = defect_id)

\* root_cause.get('description') if isinstance(root_cause, dict) else root_cause
\* followed by the "if root_cause_desc else 'No root cause specified'" test
root_cause_text(defect) ==
    LET root_cause == Get(defect, "rootCause", [type |-> "dict"])
    IN IF root_cause.type = "dict"
       THEN IF Get(root_cause, "description", "") = ""
            THEN "No root cause specified"
            ELSE root_cause.description
       ELSE IF root_cause.value = <<>>
            THEN "No root cause specified"
            ELSE root_cause.value

\* defect.get('rootCause', {}).get('description', default): AttributeError
\* when rootCause is a bare string
plain_get_raises(defect) ==
    Has(defect, "rootCause") /\ defect.rootCause.type # "dict"

plain_description(defect, default) ==
    Get(Get(defect, "rootCause", [type |-> "dict"]), "description", default)

\* LLM._format_service_analysis ------------------------------------------
service_group(defects, service) ==
    SelectSeq(defects, LAMBDA d : contains(lower(d.Defect_Summary), service))

service_entry(issue) ==
    IF plain_description(issue, "") # ""
    THEN [id |-> issue.bug_id, url |-> urljoin("jira", issue.bug_id),
          summary |-> issue.Defect_Summary,
          root_cause |-> plain_description(issue, "")]
    ELSE [id |-> issue.bug_id, url |-> urljoin("jira", issue.bug_id),
          summary |-> issue.Defect_Summary]

format_service_analysis(defects) ==
    IF \E i \in 1..Len(defects) : ~Has(defects[i], "Defect_Summary")
    THEN Raised
    ELSE TheOne({
        IF active = <<>>
        THEN Composed("none", <<>>)
        ELSE IF \E i \in 1..Len(active) : \E j \in 1..Len(active[i].issues) :
                   plain_get_raises(active[i].issues[j])
        THEN Raised
        ELSE Composed("ServiceGrouped",
               [i \in 1..Len(active) |->
                  [service |-> upper(active[i].service),
                   issues |-> [j \in 1..Len(active[i].issues) |->
                                 service_entry(active[i].issues[j])]]])
        : active \in {SelectSeq([i \in 1..Len(ServiceNames) |->
                                    [service |-> ServiceNames[i],
                                     issues |-> service_group(defects, ServiceNames[i])]],
                                LAMBDA g : g.issues # <<>>)} })

\* LLM._format_error_logs -------------------------------------------------
\* 'Error log' in defect or 'rootCause' in defect and 'analysis' in defect['rootCause']
has_log_field(defect) ==
    \/ Has(defect, "Error_log")
    \/ /\ Has(defect, "rootCause")
       /\ IF defect.rootCause.type = "dict"
          THEN Has(defect.rootCause, "analysis")
          ELSE contains(defect.rootCause.value,
                        <<"a","n","a","l","y","s","i","s">>)

\* the default of defect.get('Error log', ...) is evaluated first:
\* defect['rootCause'].get('analysis', {}).get('logs', '')
error_log_raises(defect) ==
    \/ ~Has(defect, "rootCause")
    \/ defect.rootCause.type # "dict"

error_log_of(defect) ==
    Get(defect, "Error_log", Get(Get(defect.rootCause, "analysis", EmptyDict), "logs", ""))

format_error_logs(defects) ==
    TheOne({
        IF \E i \in 1..Len(listed) : error_log_raises(listed[i])
        THEN Raised
        ELSE TheOne({
            IF errors = <<>>
            THEN Composed("none", <<>>)
            ELSE IF \E i \in 1..Len(errors) : ~Has(errors[i], "Defect_Summary")
            THEN Raised
            ELSE Composed("ErrorLogExtraction",
                   [i \in 1..Len(errors) |->
                      [id |-> errors[i].bug_id,
                       url |-> urljoin("jira", errors[i].bug_id),
                       summary |-> errors[i].Defect_Summary,
                       log |-> error_log_of(errors[i])]])
            : errors \in {SelectSeq(listed, LAMBDA d : error_log_of(d) # "")} })
        : listed \in {SelectSeq(defects, LAMBDA d : has_log_field(d))} })

\* LLM._format_conversation_history: the last three turns, or "" when empty
format_conversation_history(cw) ==
    LET n == Len(cw)
        from == IF n > RenderedTurns THEN n - RenderedTurns + 1 ELSE 1
    IN [i \in 1..(n - from + 1) |->
          [user |-> cw[from + i - 1].user, assistant |-> cw[from + i - 1].assistant]]

\* the table rows built at llm.py 240-249
table_rows(defects) ==
    [i \in 1..Len(defects) |->
        [bug_id |-> defects[i].bug_id,
         url |-> Get(defects[i], "url", urljoin("jira", defects[i].bug_id)),
         summary |-> defects[i].Defect_Summary,
         owner |-> Get(defects[i], "owner", "Unassigned")]]

\* the defect_context block built at llm.py 263-270
defect_context(defects) ==
    [i \in 1..Len(defects) |->
        [summary |-> defects[i].Defect_Summary,
         id |-> defects[i].bug_id,
         url |-> urljoin("jira", defects[i].bug_id),
         root_cause |-> plain_description(defects[i], "N/A"),
         solution |-> Get(defects[i], "solution", "N/A"),
         owner |-> Get(defects[i], "owner", "N/A")]]

\* llm.py 165-184: the generic identifier card
direct_card(defect_id, defect) ==
    IF ~Has(defect, "Defect_Summary") THEN Raised
    ELSE Composed("DirectLookup",
           [title |-> "Defect Details", id |-> defect_id,
            url |-> urljoin("jira", defect_id),
            summary |-> defect.Defect_Summary,
            root_cause |-> root_cause_text(defect),
            solution |-> Get(defect, "solution", "No solution specified"),
            owner |-> Get(defect, "owner", "Unassigned"),
            status |-> Get(defect, "status", "Unknown")])

\* llm.py 186-201: the solution card
solution_card(defect_id, defect) ==
    IF ~Has(defect, "Defect_Summary") \/ plain_get_raises(defect) THEN Raised
    ELSE Composed("SolutionLookup",
           [title |-> "Solution Details", id |-> defect_id,
            url |-> urljoin("jira", defect_id),
            summary |-> defect.Defect_Summary,
            solution |-> Get(defect, "solution", "No solution specified"),
            root_cause |-> plain_description(defect, "N/A"),
            owner |-> Get(defect, "owner", "Unassigned")])

\* llm.py 203-225: the root-cause card
root_cause_card(defect_id, defect) ==
    IF ~Has(defect, "Defect_Summary") THEN Raised
    ELSE Composed("RootCauseLookup",
           [title |-> "Root Cause Analysis", id |-> defect_id,
            url |-> urljoin("jira", defect_id),
            summary |-> defect.Defect_Summary,
            root_cause |-> root_cause_text(defect),
            solution |-> Get(defect, "solution", "No solution provided"),
            owner |-> Get(defect, "owner", "Unassigned")])

\* llm.py 227-285: table, then the listing text or the free-form prompt
listing_or_free_form(query, defects, cw) ==
    IF \E i \in 1..Len(defects) : ~Has(defects[i], "Defect_Summary")
    THEN Raised
    ELSE IF contains(lower(query), k_list) \/ contains(lower(query), k_all)
    THEN Composed("Listing", [rows |-> table_rows(defects)])
    ELSE IF \E i \in 1..Len(defects) : plain_get_raises(defects[i])
    THEN Raised
    ELSE Composed("FreeForm",
           [defects |-> defect_context(defects),
            history |-> format_conversation_history(cw),
            query |-> query])

\* the record the id lookups of llm.py 167-168, 188-191 and 206-209 find:
\* the first candidate whose bug_id is the first SCRUM- token
found_defect(query, defects) ==
    TheOne({ IF ids = <<>> THEN <<>> ELSE matching(defects, ids[1])
             : ids \in {scrum_ids(query)} })

\* llm.py 186-225: "if solution keyword ... elif root-cause keyword ...",
\* each returning only when the record is found, else falling to line 227
keyword_cards(query, defects, cw, found) ==
    IF anyKeyword(lower(query), SolutionKeywords) /\ found # <<>>
    THEN solution_card(found[1].bug_id, found[1])
    ELSE IF /\ ~anyKeyword(lower(query), SolutionKeywords)
            /\ anyKeyword(lower(query), RootCauseKeywords)
            /\ found # <<>>
    THEN root_cause_card(found[1].bug_id, found[1])
    ELSE listing_or_free_form(query, defects, cw)

\* llm.py 165-184, then the rest
identifier_cards(query, defects, cw) ==
    TheOne({ IF mentions_identifier(query) /\ found # <<>>
             THEN direct_card(found[1].bug_id, found[1])
             ELSE keyword_cards(query, defects, cw, found)
             : found \in {found_defect(query, defects)} })

\* llm.py 159-163
error_stage(query, defects, cw, query_type) ==
    TheOne({ IF error_summary.raised \/ error_summary.state # "none"
             THEN error_summary
             ELSE identifier_cards(query, defects, cw)
             : error_summary \in {IF query_type = "error"
                                  THEN format_error_logs(defects)
                                  ELSE Composed("none", <<>>)} })

\* llm.py 153-157, then the rest
service_stage(query, defects, cw, query_type) ==
    TheOne({ IF service_summary.raised \/ service_summary.state # "none"
             THEN service_summary
             ELSE error_stage(query, defects, cw, query_type)
             : service_summary \in {IF query_type = "service"
                                    THEN format_service_analysis(defects)
                                    ELSE Composed("none", <<>>)} })

\* LLM._create_prompt
create_prompt(query, defects, cw) ==
    TheOne({ service_stage(query, defects, cw, query_type)
             : query_type \in {get_query_type(query)} })

\* completions the Generation Provider can return; ProviderError is a
\* failed call (the client raises)
ProviderError == [text |-> "error", failed |-> TRUE]
Completions == { [text |-> "answer", has_summary |-> FALSE, failed |-> FALSE],
                 [text |-> "answer with Summary:", has_summary |-> TRUE, failed |-> FALSE] }

\* LLM._format_response
format_response(answer) ==
    [message |-> [container |-> "response-card",
                  body |-> answer.text,
                  summary |-> IF answer.has_summary THEN "given" ELSE "synthesized",
                  sanitized |-> FALSE],
     content_type |-> "html"]

\* variant: the newest stored turn is evicted instead of the oldest
append_turn_evict_newest(cw, turn) ==
    IF Len(cw) + 1 > MaxHistory
    THEN Append(SubSeq(cw, 1, Len(cw) - 1), turn)
    ELSE Append(cw, turn)

\* context_window.append(turn), then pop(0) when longer than 5
append_turn(cw, turn) ==
    IF Len(cw) + 1 > MaxHistory THEN Tail(Append(cw, turn)) ELSE Append(cw, turn)

\* LLM.get_response
get_response(cw, query, defects, completion, now) ==
    TheOne({
       IF p.raised
       THEN [raised |-> TRUE, state |-> "none", prompt |-> <<>>, genCalls |-> 0,
             context_window |-> cw]
       ELSE IF completion.failed
       THEN [raised |-> TRUE, state |-> p.state, prompt |-> p.text, genCalls |-> 1,
             context_window |-> cw]
       ELSE [raised |-> FALSE, state |-> p.state, prompt |-> p.text, genCalls |-> 1,
             context_window |->
                 append_turn(cw, [user |-> query, assistant |-> completion.text,
                                  timestamp |-> now]),
             response |-> format_response(completion)]
       : p \in {create_prompt(query, defects, cw)} })

(***************************************************************************)
(* app.py: startup and the /defects/response handler                       *)
(***************************************************************************)
\* FAISS.add_documents: one embedding per summary, None for an empty collection
add_documents(defect_data) ==
    [embed_model |-> "all-MiniLM-L6-v2",
     index |-> [is_none |-> defect_data = <<>>,
                rows |-> [i \in 1..Len(defect_data) |-> defect_data[i].Defect_Summary]],
     data |-> defect_data]

\* how a request that raised is reported, with the place that raised
Failure(at) == [raised |-> TRUE, at |-> at]

\* variant: only tracker-style tokens are recognised
mentioned_ids_tracker_only(query) ==
    SeqToSet(SelectSeq(upper_words(split(query)),
                       LAMBDA w : startswith(w, SCRUM_prefix)))

\* app.py 86-89
mentioned_ids(query) ==
    SeqToSet(SelectSeq(upper_words(split(query)),
                       LAMBDA w : startswith(w, SCRUM_prefix) \/ startswith(w, INC_prefix)))

\* app.py 92-107
invalid_id_answer(invalid_ids, valid_ids) ==
    [message |-> [title |-> "Invalid Defect IDs",
                  invalid_ids |-> invalid_ids,
                  valid_ids |-> sorted(valid_ids)],
     content_type |-> "markdown"]

\* app.py 131-140: bleach.clean on html answers only
sanitize(resp) ==
    IF resp.content_type = "html"
    THEN [resp EXCEPT !.message.sanitized = TRUE]
    ELSE resp

\* app.py 129-145
compose_and_reply(query, retrieved, completion) ==
    TheOne({
       [response |-> IF r.raised
                     THEN Failure(IF r.genCalls = 0 THEN "compose" ELSE "provider")
                     ELSE sanitize(r.response),
        state |-> r.state, prompt |-> r.prompt,
        relevant_defects |-> retrieved.relevant_defects,
        indices_scores |-> retrieved.indices_scores,
        similarities |-> retrieved.similarities,
        embedCalls |-> retrieved.embedCalls, genCalls |-> r.genCalls,
        context_window |-> r.context_window]
       : r \in {get_response(<<>>, query, retrieved.relevant_defects, completion, 1)} })

\* a request that ends before llm.get_response is called
ended_early(resp, st, sims, idx_scores, embeds) ==
    [response |-> resp, state |-> st, prompt |-> <<>>, relevant_defects |-> <<>>,
     indices_scores |-> idx_scores, similarities |-> sims,
     embedCalls |-> embeds, genCalls |-> 0, context_window |-> <<>>]

\* what the retrieval step of the handler leaves behind
Retrieved(failed_at, candidates, sims, idx_scores, embeds) ==
    [failed_at |-> failed_at, relevant_defects |-> candidates,
     similarities |-> sims, indices_scores |-> idx_scores, embedCalls |-> embeds]

\* app.py 125-127
semantic_candidates(defect_data, dllm, sims) ==
    IF dllm.index.is_none
    THEN Retrieved("search", <<>>, <<>>, <<>>, 1)
    ELSE TheOne({
       IF scores_out_of_range(defect_data, idx_scores)
       THEN Retrieved("resolve", <<>>, sims, idx_scores, 1)
       ELSE TheOne({
          Retrieved("", sortDescending(scored,
                            [i \in 1..Len(scored) |-> scored[i].relevance_score]),
                    sims, idx_scores, 1)
          : scored \in {get_defects_by_indices_with_scores(defect_data, idx_scores)} })
       : idx_scores \in {semantic_search(sims, TopK, Threshold)} })

\* app.py 112-128
retrieve(query, defect_data, valid_ids, dllm, sims) ==
    IF anyKeyword(query, RootSolutionKeywords)
    THEN TheOne({
            IF ids # <<>> /\ ids[1] \in valid_ids
            THEN Retrieved("", matching(defect_data, ids[1]), <<>>, <<>>, 0)
            ELSE Retrieved("", defect_data, <<>>, <<>>, 0)
            : ids \in {scrum_ids(query)} })
    ELSE IF ~anyKeyword(query, ListingKeywords)
    THEN semantic_candidates(defect_data, dllm, sims)
    ELSE Retrieved("", defect_data, <<>>, <<>>, 0)

\* app.py 109-145
retrieve_and_compose(query, defect_data, valid_ids, dllm, sims, completion) ==
    TheOne({
       IF retrieved.failed_at # ""
       THEN ended_early(Failure(retrieved.failed_at), "none", retrieved.similarities,
                        retrieved.indices_scores, retrieved.embedCalls)
       ELSE compose_and_reply(query, retrieved, completion)
       : retrieved \in {retrieve(query, defect_data, valid_ids, dllm, sims)} })

\* the handler defects_response, with the query already lower-cased
handle_query(query, defect_data, valid_ids, dllm, sims, completion) ==
    TheOne({
       IF invalid_ids # {}
       THEN ended_early(invalid_id_answer(invalid_ids, valid_ids),
                        "InvalidIdentifier", <<>>, <<>>, 0)
       ELSE IF ~Has(dllm, "index")
       THEN ended_early(Failure("index"), "none", <<>>, <<>>, 0)
       ELSE retrieve_and_compose(query, defect_data, valid_ids, dllm, sims, completion)
       : invalid_ids \in {mentioned_ids(query) \ valid_ids} })

\* the handler defects_response
defects_response(prompt_text, st, valid_ids, dllm, sims, completion) ==
    TheOne({ handle_query(query, load_defect_data(st), valid_ids, dllm, sims, completion)
             : query \in {lower(prompt_text)} })

(***************************************************************************)
(* Inputs                                                                  *)
(***************************************************************************)
\* phrases a prompt is put together from
Vocabulary == {
    <<"S","C","R","U","M","-","1">>,
    <<"S","C","R","U","M","-","2"," ","S","C","R","U","M","-","1">>,
    <<"S","C","R","U","M","-","9">>,
    <<"I","N","C","7">>,
    <<"i","n","c","i","d","e","n","t">>,
    <<"w","h","y">>,
    <<"f","i","x">>,
    <<"l","i","s","t">>,
    <<"a","l","l">>,
    <<"a","l","l"," ","d","e","f","e","c","t","s">>,
    <<"k","a","f","k","a">>,
    <<"e","r","r","o","r">>,
    <<"s","l","o","w">> }

Prompts == {joinSpace(ws) : ws \in UNION {[1..n -> Vocabulary] : n \in 1..MaxWords}}

NoResponse == [content_type |-> "none"]

(***************************************************************************)
(* Specification of the service                                            *)
(***************************************************************************)
Init ==
    /\ store \in Collections
    /\ started = FALSE
    /\ defects_llm = EmptyDict
    /\ valid_defect_ids = {}
    /\ pc = "idle"
    /\ chat_request = <<>>
    /\ response = NoResponse
    /\ state = "none"
    /\ prompt = <<>>
    /\ relevant_defects = <<>>
    /\ indices_scores = <<>>
    /\ embedCalls = 0
    /\ genCalls = 0
    /\ context_window = <<>>
    /\ log = <<>>
    /\ similarities = <<>>
    /\ cleanup_done = FALSE
    /\ defect_cause = <<>>
    /\ servicenow_incidents = <<>>
    /\ db_defect_data = <<>>

\* lifespan, up to the yield (app.py 31-49)
Startup ==
    /\ ~started
    /\ ~cleanup_done
    /\ started' = TRUE
    /\ defects_llm' = add_documents(load_defect_data(store))
    /\ valid_defect_ids' = {load_defect_data(store)[i].bug_id :
                               i \in 1..Len(load_defect_data(store))}
    /\ UNCHANGED <<cleanup_done, defect_cause, servicenow_incidents, db_defect_data>>
    /\ UNCHANGED <<store, pc, chat_request, response, state, prompt,
                   relevant_defects, indices_scores, embedCalls, genCalls,
                   context_window, log, similarities>>

\* the Record Store is changed from outside while the service runs
StoreChange ==
    /\ started
    /\ pc = "idle"
    /\ \E c \in Collections \ {store} : store' = c
    /\ UNCHANGED <<cleanup_done, defect_cause, servicenow_incidents, db_defect_data>>
    /\ UNCHANGED <<started, defects_llm, valid_defect_ids, pc, chat_request,
                   response, state, prompt, relevant_defects, indices_scores,
                   embedCalls, genCalls, context_window, log, similarities>>

\* a POST /defects/response arrives
Receive ==
    /\ started
    /\ pc = "idle"
    /\ \E p \in Prompts : chat_request' = p
    /\ pc' = "received"
    /\ UNCHANGED <<cleanup_done, defect_cause, servicenow_incidents, db_defect_data>>
    /\ UNCHANGED <<store, started, defects_llm, valid_defect_ids, response, state,
                   prompt, relevant_defects, indices_scores, embedCalls, genCalls,
                   context_window, log, similarities>>

\* the similarities np.dot can produce for a query: one per index row when
\* the handler reaches semantic_search, none otherwise
search_runs(prompt_text, valid_ids, dllm) ==
    LET query == lower(prompt_text)
    IN /\ mentioned_ids(query) \ valid_ids = {}
       /\ Has(dllm, "index")
       /\ ~dllm.index.is_none
       /\ ~anyKeyword(query, RootSolutionKeywords)
       /\ ~anyKeyword(query, ListingKeywords)

Similarities(prompt_text, valid_ids, dllm) ==
    IF search_runs(prompt_text, valid_ids, dllm)
    THEN [1..Len(dllm.index.rows) -> ScoreValues]
    ELSE {<<>>}

\* defects_response runs to its return (or raises)
DefectsResponse ==
    /\ pc = "received"
    /\ \E sims \in Similarities(chat_request, valid_defect_ids, defects_llm),
          completion \in Completions \cup {ProviderError} :
          \E out \in {defects_response(chat_request, store, valid_defect_ids,
                                       defects_llm, sims, completion)} :
             /\ response' = out.response
             /\ state' = out.state
             /\ prompt' = out.prompt
             /\ relevant_defects' = out.relevant_defects
             /\ indices_scores' = out.indices_scores
             /\ similarities' = out.similarities
             /\ embedCalls' = out.embedCalls
             /\ genCalls' = out.genCalls
             /\ context_window' = out.context_window
             /\ db_defect_data' =
                   IF out.response = Failure("resolve")
                   THEN load_defect_data(store)
                   ELSE defect_data_after_scoring(load_defect_data(store),
                                                  out.indices_scores)
    /\ pc' = "responded"
    /\ UNCHANGED <<cleanup_done, defect_cause, servicenow_incidents>>
    /\ UNCHANGED <<store, started, defects_llm, valid_defect_ids, chat_request, log>>

\* the response has been sent; the per-request objects are dropped
Reply ==
    /\ pc = "responded"
    /\ pc' = "idle"
    /\ chat_request' = <<>>
    /\ response' = NoResponse
    /\ state' = "none"
    /\ prompt' = <<>>
    /\ relevant_defects' = <<>>
    /\ indices_scores' = <<>>
    /\ similarities' = <<>>
    /\ embedCalls' = 0
    /\ genCalls' = 0
    /\ context_window' = <<>>
    /\ db_defect_data' = <<>>
    /\ UNCHANGED <<cleanup_done, defect_cause, servicenow_incidents>>
    /\ UNCHANGED <<store, started, defects_llm, valid_defect_ids, log>>

\* cleanup_resources (app.py 23-28): what it leaves in the two globals
cleanup_resources(dllm, done) ==
    IF done THEN [defects_llm |-> dllm, cleanup_done |-> TRUE]
    ELSE [defects_llm |-> EmptyDict, cleanup_done |-> TRUE]

\* lifespan raises before the yield (a loader, DataBase() or add_documents
\* fails): except branch and finally (app.py 50-55); the application does
\* not start
StartupFails ==
    /\ ~started
    /\ ~cleanup_done
    /\ \E c \in {cleanup_resources(defects_llm, cleanup_done)} :
          /\ defects_llm' = c.defects_llm
          /\ cleanup_done' = c.cleanup_done
    /\ UNCHANGED <<store, started, valid_defect_ids, pc, chat_request, response,
                   state, prompt, relevant_defects, indices_scores, embedCalls,
                   genCalls, context_window, log, similarities, defect_cause,
                   servicenow_incidents, db_defect_data>>

\* the server shuts down with no request in progress: lifespan resumes
\* after the yield and runs its finally (app.py 54-55)
Shutdown ==
    /\ started
    /\ pc = "idle"
    /\ started' = FALSE
    /\ \E c \in {cleanup_resources(defects_llm, cleanup_done)} :
          /\ defects_llm' = c.defects_llm
          /\ cleanup_done' = c.cleanup_done
    /\ UNCHANGED <<store, valid_defect_ids, pc, chat_request, response,
                   state, prompt, relevant_defects, indices_scores, embedCalls,
                   genCalls, context_window, log, similarities, defect_cause,
                   servicenow_incidents, db_defect_data>>

\* SIGINT or SIGTERM while a request is in progress: handle_exit
\* (app.py 57-59) clears the registry and raises KeyboardInterrupt, which
\* ends the request without a reply and the serving of requests
HandleExit ==
    /\ started
    /\ pc \in {"received", "responded"}
    /\ started' = FALSE
    /\ \E c \in {cleanup_resources(defects_llm, cleanup_done)} :
          /\ defects_llm' = c.defects_llm
          /\ cleanup_done' = c.cleanup_done
    /\ pc' = "idle"
    /\ chat_request' = <<>>
    /\ response' = NoResponse
    /\ state' = "none"
    /\ prompt' = <<>>
    /\ relevant_defects' = <<>>
    /\ indices_scores' = <<>>
    /\ similarities' = <<>>
    /\ embedCalls' = 0
    /\ genCalls' = 0
    /\ context_window' = <<>>
    /\ db_defect_data' = <<>>
    /\ UNCHANGED <<store, valid_defect_ids, log, defect_cause, servicenow_incidents>>

Next ==
    \/ Startup \/ StartupFails \/ StoreChange \/ Receive \/ DefectsResponse
    \/ Reply \/ Shutdown \/ HandleExit

Spec == Init /\ [][Next]_vars

(***************************************************************************)
(* Specification of one composer instance: a sequence of get_response      *)
(* calls on the same LLM object                                            *)
(***************************************************************************)
ComposerQueries == { <<"s","l","o","w">>, <<"l","i","s","t">> }

InitComposer ==
    /\ store = <<rec_SCRUM1, rec_SCRUM2, rec_INC7>>
    /\ started = FALSE
    /\ defects_llm = EmptyDict
    /\ valid_defect_ids = {}
    /\ pc = "composer"
    /\ chat_request = <<>>
    /\ response = NoResponse
    /\ state = "none"
    /\ prompt = <<>>
    /\ relevant_defects = <<>>
    /\ indices_scores = <<>>
    /\ embedCalls = 0
    /\ genCalls = 0
    /\ context_window = <<>>
    /\ log = <<>>
    /\ similarities = <<>>
    /\ cleanup_done = FALSE
    /\ defect_cause = <<>>
    /\ servicenow_incidents = <<>>
    /\ db_defect_data = <<>>

\* llm.get_response(query, relevant_defects) on the instance
GetResponse ==
    /\ pc = "composer"
    /\ Len(log) < MaxCalls
    /\ \E query \in ComposerQueries, completion \in Completions \cup {ProviderError} :
          \E r \in {get_response(context_window, query, store, completion, Len(log) + 1)} :
             /\ chat_request' = query
             /\ relevant_defects' = store
             /\ context_window' = r.context_window
             /\ log' = IF r.raised THEN log
                       ELSE Append(log, [user |-> query, assistant |-> completion.text,
                                         timestamp |-> Len(log) + 1])
             /\ state' = r.state
             /\ prompt' = r.prompt
             /\ genCalls' = r.genCalls
             /\ response' = IF r.raised
                            THEN Failure(IF r.genCalls = 0 THEN "compose" ELSE "provider")
                            ELSE r.response
    /\ UNCHANGED <<cleanup_done, defect_cause, servicenow_incidents, db_defect_data>>
    /\ UNCHANGED <<store, started, defects_llm, valid_defect_ids, pc,
                   indices_scores, embedCalls, similarities>>

NextComposer == GetResponse

SpecComposer == InitComposer /\ [][NextComposer]_vars

(***************************************************************************)
(* Specification of the vector index: any index, any query embedding       *)
(***************************************************************************)
InitSearch ==
    /\ store = <<>>
    /\ started = FALSE
    /\ defects_llm = EmptyDict
    /\ valid_defect_ids = {}
    /\ pc = "index"
    /\ chat_request = <<>>
    /\ response = NoResponse
    /\ state = "none"
    /\ prompt = <<>>
    /\ relevant_defects = <<>>
    /\ indices_scores = <<>>
    /\ embedCalls = 0
    /\ genCalls = 0
    /\ context_window = <<>>
    /\ log = <<>>
    /\ similarities = <<>>
    /\ cleanup_done = FALSE
    /\ defect_cause = <<>>
    /\ servicenow_incidents = <<>>
    /\ db_defect_data = <<>>

\* one more row in the index: its similarity to the query is any value
AddVector ==
    /\ pc = "index"
    /\ Len(similarities) < MaxIndex
    /\ \E score \in ScoreValues : similarities' = Append(similarities, score)
    /\ UNCHANGED <<cleanup_done, defect_cause, servicenow_incidents, db_defect_data>>
    /\ UNCHANGED <<store, started, defects_llm, valid_defect_ids, pc, chat_request,
                   response, state, prompt, relevant_defects, indices_scores,
                   embedCalls, genCalls, context_window, log>>

\* vs.semantic_search(query, top_k=10) on the index built so far
SemanticSearch ==
    /\ pc = "index"
    /\ similarities # <<>>
    /\ pc' = "searched"
    /\ embedCalls' = 1
    /\ indices_scores' = semantic_search(similarities, TopK, Threshold)
    /\ UNCHANGED <<cleanup_done, defect_cause, servicenow_incidents, db_defect_data>>
    /\ UNCHANGED <<store, started, defects_llm, valid_defect_ids, chat_request,
                   response, state, prompt, relevant_defects, genCalls,
                   context_window, log, similarities>>

NextSearch == AddVector \/ SemanticSearch

SpecSearch == InitSearch /\ [][NextSearch]_vars

(***************************************************************************)
(* Specification of prompt composition: LLM._create_prompt on any          *)
(* candidates the handler can hand over                                    *)
(***************************************************************************)
MaxCandidates == 2

\* the documents candidates are drawn from
PromptRecords == {rec_SCRUM1, rec_SCRUM2, rec_INC7, rec_SCRUM3, rec_SCRUM4,
                  rec_SCRUM5, rec_SCRUM6}

\* relevant_defects as the handler passes it: each document at most once
CandidateLists ==
    {c \in UNION {[1..n -> PromptRecords] : n \in 0..MaxCandidates} :
        \A i, j \in 1..Len(c) : i < j => c[i] # c[j]}

\* queries as the handler passes them (prompt.lower())
PromptQueries == {
    <<"e","r","r","o","r">>,
    <<"w","h","a","t"," ","i","s"," ","e","r","r","o","r">>,
    <<"l","o","g","i","n">>,
    <<"k","a","f","k","a">>,
    <<"k","a","f","k","a"," ","e","r","r","o","r">>,
    <<"a","p","i">>,
    <<"s","c","r","u","m","-","3"," ","l","o","g">>,
    <<"s","c","r","u","m","-","4">>,
    <<"s","c","r","u","m","-","4"," ","f","i","x">>,
    <<"s","c","r","u","m","-","4"," ","w","h","y">>,
    <<"s","c","r","u","m","-","5">>,
    <<"s","c","r","u","m","-","6">>,
    <<"s","l","o","w">>,
    <<"l","i","s","t">> }

InitPrompt ==
    /\ store = <<>>
    /\ started = FALSE
    /\ defects_llm = EmptyDict
    /\ valid_defect_ids = {}
    /\ pc = "prompt"
    /\ chat_request \in PromptQueries
    /\ response = NoResponse
    /\ state = "none"
    /\ prompt = <<>>
    /\ relevant_defects \in CandidateLists
    /\ indices_scores = <<>>
    /\ embedCalls = 0
    /\ genCalls = 0
    /\ context_window = <<>>
    /\ log = <<>>
    /\ similarities = <<>>
    /\ cleanup_done = FALSE
    /\ defect_cause = <<>>
    /\ servicenow_incidents = <<>>
    /\ db_defect_data = <<>>

\* self._create_prompt(query, relevant_defects) on a fresh instance
CreatePrompt ==
    /\ pc = "prompt"
    /\ \E p \in {create_prompt(chat_request, relevant_defects, context_window)} :
          /\ state' = IF p.raised THEN "none" ELSE p.state
          /\ prompt' = IF p.raised THEN <<>> ELSE p.text
          /\ response' = IF p.raised THEN Failure("compose") ELSE NoResponse
    /\ pc' = "prompted"
    /\ UNCHANGED <<cleanup_done, defect_cause, servicenow_incidents, db_defect_data>>
    /\ UNCHANGED <<store, started, defects_llm, valid_defect_ids, chat_request,
                   relevant_defects, indices_scores, embedCalls, genCalls,
                   context_window, log, similarities>>

NextPrompt == CreatePrompt

SpecPrompt == InitPrompt /\ [][NextPrompt]_vars

(***************************************************************************)
(* Specification of a session: a sequence of requests served by the        *)
(* handler, with the completed free-form exchanges recorded in log         *)
(***************************************************************************)
MaxExchanges == 4

SessionPrompts == { <<"s","l","o","w">>, <<"l","i","s","t">> }

InitSession ==
    /\ store = <<rec_SCRUM1, rec_SCRUM2, rec_INC7>>
    /\ started = FALSE
    /\ defects_llm = EmptyDict
    /\ valid_defect_ids = {}
    /\ pc = "session"
    /\ chat_request = <<>>
    /\ response = NoResponse
    /\ state = "none"
    /\ prompt = <<>>
    /\ relevant_defects = <<>>
    /\ indices_scores = <<>>
    /\ embedCalls = 0
    /\ genCalls = 0
    /\ context_window = <<>>
    /\ log = <<>>
    /\ similarities = <<>>
    /\ cleanup_done = FALSE
    /\ defect_cause = <<>>
    /\ servicenow_incidents = <<>>
    /\ db_defect_data = <<>>

\* one POST /defects/response from arrival to reply: the handler builds
\* its own LLM() (app.py 80), so the composer starts with an empty history
ServeQuery ==
    /\ started
    /\ pc = "session"
    /\ Len(log) < MaxExchanges
    /\ \E p \in SessionPrompts :
       \E sims \in Similarities(p, valid_defect_ids, defects_llm),
          completion \in Completions \cup {ProviderError} :
          \E out \in {defects_response(p, store, valid_defect_ids,
                                       defects_llm, sims, completion)} :
             /\ chat_request' = p
             /\ response' = out.response
             /\ state' = out.state
             /\ prompt' = out.prompt
             /\ relevant_defects' = out.relevant_defects
             /\ indices_scores' = out.indices_scores
             /\ similarities' = out.similarities
             /\ embedCalls' = out.embedCalls
             /\ genCalls' = out.genCalls
             /\ context_window' = out.context_window
             /\ log' = IF "message" \in DOMAIN out.response /\ out.state = "FreeForm"
                       THEN Append(log, [user |-> lower(p), assistant |-> completion.text])
                       ELSE log
    /\ UNCHANGED <<cleanup_done, defect_cause, servicenow_incidents, db_defect_data>>
    /\ UNCHANGED <<store, started, defects_llm, valid_defect_ids, pc>>

NextSession == Startup \/ ServeQuery

SpecSession == InitSession /\ [][NextSession]_vars

(***************************************************************************)
(* Specification of ingestion: runs of the two loaders over the Mongo      *)
(* collections, then DataBase._load_defect_data                            *)
(***************************************************************************)
MaxBatch == 2      \* issues or incidents fetched by one loader run
MaxRuns == 3       \* loader runs before the collection is loaded

id_INC8 == <<"I","N","C","8">>

\* Python None as a stored value (BSON null); no text equals it
None == <<"None">>

\* collection.find_one({field: value}): the documents that match; a null
\* query value matches documents whose field is null or missing
\* variant: a null query value matches nothing
find_one_null_unmatched(coll, field, value) ==
    SelectSeq(coll, LAMBDA doc :
        value # None /\ Has(doc, field) /\ doc[field] = value)

find_one(coll, field, value) ==
    SelectSeq(coll, LAMBDA doc :
        IF value = None
        THEN ~Has(doc, field) \/ doc[field] = None
        ELSE Has(doc, field) /\ doc[field] = value)

\* what the tracker returns for one bug: its key and whether it has an
\* attachment named RCA
Bugs == [key : {id_SCRUM1, id_SCRUM2}, has_rca : BOOLEAN]

\* parse_rca_to_json for an RCA file with the usual sections
parse_rca_to_json(issue_key) ==
    [bug_id |-> issue_key,
     bug_url |-> urljoin("jira", issue_key),
     owner |-> "Unassigned",
     Defect_Summary |-> <<"p","a","r","s","e","d">>,
     rootCause |-> [type |-> "dict", description |-> "parsed",
                    analysis |-> [logs |-> "parsed"]],
     solution |-> "parsed"]

\* create_basic_rca
create_basic_rca(issue_key) ==
    [bug_id |-> issue_key,
     bug_url |-> urljoin("jira", issue_key),
     owner |-> "Unassigned",
     Defect_Summary |-> <<"b","a","s","i","c">>,
     rootCause |-> [type |-> "dict",
                    description |-> "Initial analysis pending.",
                    analysis |-> [logs |-> "No specific error patterns identified yet."]],
     solution |-> "Investigation needed"]

\* one pass of the loop of load_data_from_jira: process_and_store_rca for a
\* bug with an RCA attachment, the basic document otherwise; both insert
\* only when find_one({"bug_id": issue_key}) finds nothing
store_bug(coll, bug) ==
    IF find_one(coll, "bug_id", bug.key) # <<>> THEN coll
    ELSE Append(coll, IF bug.has_rca THEN parse_rca_to_json(bug.key)
                      ELSE create_basic_rca(bug.key))

RECURSIVE load_data_from_jira(_, _)
load_data_from_jira(coll, bugs) ==
    IF bugs = <<>> THEN coll
    ELSE load_data_from_jira(store_bug(coll, Head(bugs)), Tail(bugs))

\* incidents as the incident system returns them, with or without a number
RawIncidents ==
    { [number |-> id_INC7, short_description |-> "login down", sys_id |-> "a7"],
      [number |-> id_INC8, short_description |-> "disk full", sys_id |-> "a8"],
      [short_description |-> "no number yet", sys_id |-> "a9"] }

\* transform_incident_data: raw_incident.get(...) is None for a missing key
transform_incident_data(raw_incident) ==
    [incident_id |-> Get(raw_incident, "number", None),
     short_description |-> raw_incident.short_description,
     description |-> "",
     url |-> [base |-> "servicenow", ref |-> raw_incident.sys_id]]

\* one pass of the loop of load_data_from_servicenow
store_incident(coll, raw_incident) ==
    TheOne({ IF find_one(coll, "incident_id", transformed.incident_id) # <<>>
             THEN coll
             ELSE Append(coll, transformed)
             : transformed \in {transform_incident_data(raw_incident)} })

RECURSIVE load_data_from_servicenow(_, _)
load_data_from_servicenow(coll, incidents) ==
    IF incidents = <<>> THEN coll
    ELSE load_data_from_servicenow(store_incident(coll, Head(incidents)),
                                   Tail(incidents))

\* the loop body of DataBase._load_defect_data (llm.py 28-37)
normalise_incident(inc) ==
    [bug_id |-> Get(inc, "incident_id", <<"U","N","K","N","O","W","N">>),
     incident_id |-> inc.incident_id,
     Defect_Summary |-> Get(inc, "short_description", "No summary"),
     owner |-> Get(inc, "assigned_to", "Unassigned"),
     solution |-> Get(inc, "description", "No solution provided"),
     rootCause |-> [type |-> "dict", description |-> Get(inc, "description", ""),
                    analysis |-> [logs |-> ""]],
     url |-> inc.url]

\* DataBase._load_defect_data: defects + incidents
load_collections(defects, incidents) ==
    defects \o [i \in 1..Len(incidents) |-> normalise_incident(incidents[i])]

Batches(S) == UNION {[1..n -> S] : n \in 0..MaxBatch}

InitIngest ==
    /\ store = <<>>
    /\ started = FALSE
    /\ defects_llm = EmptyDict
    /\ valid_defect_ids = {}
    /\ pc = "ingest"
    /\ chat_request = <<>>
    /\ response = NoResponse
    /\ state = "none"
    /\ prompt = <<>>
    /\ relevant_defects = <<>>
    /\ indices_scores = <<>>
    /\ embedCalls = 0
    /\ genCalls = 0
    /\ context_window = <<>>
    /\ log = <<>>
    /\ similarities = <<>>
    /\ cleanup_done = FALSE
    /\ defect_cause = <<>>
    /\ servicenow_incidents = <<>>
    /\ db_defect_data = <<>>

\* one run of load_data_from_jira over the bugs the tracker returns
LoadDataFromJira ==
    /\ pc = "ingest"
    /\ Len(log) < MaxRuns
    /\ \E bugs \in Batches(Bugs) :
       \E coll \in {load_data_from_jira(defect_cause, bugs)} :
          /\ defect_cause' = coll
          /\ log' = Append(log, [loader |-> "jira", fetched |-> Len(bugs),
                                 inserted |-> Len(coll) - Len(defect_cause)])
    /\ UNCHANGED <<store, started, defects_llm, valid_defect_ids, pc, chat_request,
                   response, state, prompt, relevant_defects, indices_scores,
                   embedCalls, genCalls, context_window, similarities,
                   cleanup_done, servicenow_incidents, db_defect_data>>

\* one run of load_data_from_servicenow over the incidents fetched
LoadDataFromServicenow ==
    /\ pc = "ingest"
    /\ Len(log) < MaxRuns
    /\ \E incidents \in Batches(RawIncidents) :
       \E coll \in {load_data_from_servicenow(servicenow_incidents, incidents)} :
          /\ servicenow_incidents' = coll
          /\ log' = Append(log, [loader |-> "servicenow", fetched |-> Len(incidents),
                                 inserted |-> Len(coll) - Len(servicenow_incidents)])
    /\ UNCHANGED <<store, started, defects_llm, valid_defect_ids, pc, chat_request,
                   response, state, prompt, relevant_defects, indices_scores,
                   embedCalls, genCalls, context_window, similarities,
                   cleanup_done, defect_cause, db_defect_data>>

\* DataBase(): the record collection is loaded from the two collections
LoadDefectData ==
    /\ pc = "ingest"
    /\ pc' = "loaded"
    /\ store' = load_collections(defect_cause, servicenow_incidents)
    /\ UNCHANGED <<started, defects_llm, valid_defect_ids, chat_request,
                   response, state, prompt, relevant_defects, indices_scores,
                   embedCalls, genCalls, context_window, log, similarities,
                   cleanup_done, defect_cause, servicenow_incidents, db_defect_data>>

NextIngest == LoadDataFromJira \/ LoadDataFromServicenow \/ LoadDefectData

SpecIngest == InitIngest /\ [][NextIngest]_vars

(***************************************************************************)
(* Properties                                                              *)
(***************************************************************************)
\* the identifier-like tokens of the request, upper-cased
IdTokens ==
    {upper(w) : w \in {x \in SeqToSet(split(chat_request)) :
                          \/ startswith(upper(x), SCRUM_prefix)
                          \/ startswith(upper(x), INC_prefix)}}

\* the first tracker-style token of the request, upper-cased (<<>> if none)
FirstTrackerToken ==
    LET ws == split(chat_request)
        at == {i \in 1..Len(ws) : startswith(upper(ws[i]), SCRUM_prefix)}
    IN IF at = {} THEN <<>>
       ELSE upper(ws[CHOOSE i \in at : \A j \in at : i <= j])

HasKeyword(keywords) == \E k \in keywords : contains(lower(chat_request), k)

\* the handler (or get_response) returned an answer instead of raising
Answered == "message" \in DOMAIN response

TemplatedStates == {"ServiceGrouped", "ErrorLogExtraction", "DirectLookup",
                    "SolutionLookup", "RootCauseLookup", "Listing"}

\* C1: a request with an identifier-like token that is not a valid id gets
\* the InvalidIdentifier answer, which names every invalid token and every
\* valid id, is markdown, and is produced without any embedding or
\* generation call.
C1_InvalidIdentifierAnswer ==
    (pc = "responded" /\ IdTokens \ valid_defect_ids # {}) =>
        /\ state = "InvalidIdentifier"
        /\ response.content_type = "markdown"
        /\ response.message.invalid_ids = IdTokens \ valid_defect_ids
        /\ SeqToSet(response.message.valid_ids) = valid_defect_ids
        /\ embedCalls = 0
        /\ genCalls = 0

C1_Witness ==
    /\ pc = "responded"
    /\ state = "InvalidIdentifier"
    /\ valid_defect_ids # {}
    /\ \E t \in response.message.invalid_ids : startswith(t, INC_prefix)
    /\ \E t \in response.message.invalid_ids : startswith(t, SCRUM_prefix)

\* C2: the Generation Provider is called at most once per query and only in
\* the FreeForm state; a templated answer is produced without a generation
\* call.
C2_GenerationOnlyFreeForm ==
    (pc = "responded" /\ Answered) =>
        /\ genCalls <= 1
        /\ genCalls = 1 => state = "FreeForm"
        /\ state \in TemplatedStates => genCalls = 0

\* C3: the answer is html exactly when the composer state is FreeForm.
C3_HtmlIffFreeForm ==
    (pc = "responded" /\ Answered) =>
        (response.content_type = "html" <=> state = "FreeForm")

\* C4: when an identifier card is produced, a solution keyword selects the
\* Solution Details card, otherwise a root-cause keyword selects the Root
\* Cause Analysis card, and only without either keyword the Defect Details
\* card is produced.
C4_CardOrder ==
    (/\ pc = "responded"
     /\ Answered
     /\ state \in {"DirectLookup", "SolutionLookup", "RootCauseLookup"}) =>
        /\ HasKeyword(SolutionKeywords) => state = "SolutionLookup"
        /\ (~HasKeyword(SolutionKeywords) /\ HasKeyword(RootCauseKeywords))
              => state = "RootCauseLookup"
        /\ (~HasKeyword(SolutionKeywords) /\ ~HasKeyword(RootCauseKeywords))
              => state = "DirectLookup"

C6_SemanticOtherwise ==
    (/\ pc = "responded"
     /\ IdTokens \ valid_defect_ids = {}
     /\ ~(HasKeyword(RootSolutionKeywords) /\ FirstTrackerToken # <<>>)
     /\ ~HasKeyword(ListingKeywords)
     /\ Answered) =>
        /\ embedCalls = 1
        /\ indices_scores = semantic_search(similarities, TopK, Threshold)
        /\ Len(relevant_defects) = Len(indices_scores)

\* C7: a Listing table has exactly one row per record of the whole record
\* collection, in storage order, showing id, summary and owner.
C7_ListingWholeCollection ==
    (pc = "responded" /\ Answered /\ state = "Listing") =>
        /\ Len(prompt.rows) = Len(store)
        /\ \A i \in 1..Len(store) :
              /\ prompt.rows[i].bug_id = store[i].bug_id
              /\ prompt.rows[i].summary = store[i].Defect_Summary
              /\ prompt.rows[i].owner = store[i].owner

\* C8: semantic_search(top_k = 10, threshold = 0.30) returns genuine
\* (position, score) pairs, every score above the threshold, in
\* non-increasing score order, equal scores by increasing position, at most
\* 10 entries, and never omits a record above the threshold while returning
\* a lower-scored one.
C8_SearchRanking ==
    pc = "searched" =>
        /\ Len(indices_scores) <= TopK
        /\ \A i \in 1..Len(indices_scores) :
              /\ indices_scores[i][1] \in 0..(Len(similarities) - 1)
              /\ indices_scores[i][2] = similarities[indices_scores[i][1] + 1]
              /\ indices_scores[i][2] > Threshold
        /\ \A i, j \in 1..Len(indices_scores) :
              i < j => /\ indices_scores[i][2] >= indices_scores[j][2]
                       /\ indices_scores[i][1] # indices_scores[j][1]
                       /\ indices_scores[i][2] = indices_scores[j][2]
                             => indices_scores[i][1] < indices_scores[j][1]
        /\ \A p \in 1..Len(similarities) :
              (/\ similarities[p] > Threshold
               /\ \A i \in 1..Len(indices_scores) : indices_scores[i][1] # p - 1)
              => /\ Len(indices_scores) = TopK
                 /\ \A i \in 1..Len(indices_scores) :
                       indices_scores[i][2] >= similarities[p]

C8_Witness ==
    /\ pc = "searched"
    /\ Len(similarities) = MaxIndex
    /\ Len(indices_scores) = TopK
    /\ \A p \in 1..Len(similarities) : similarities[p] > Threshold
    /\ \E i \in 1..(TopK - 1) :
          /\ indices_scores[i][2] = indices_scores[i + 1][2]
          /\ indices_scores[i][1] + 1 < indices_scores[i + 1][1]

\* the window before the last call: the stored turns without the one the
\* last completed call appended
Min(a, b) == IF a < b THEN a ELSE b
LastN(seq, n) == SubSeq(seq, Len(seq) - Min(n, Len(seq)) + 1, Len(seq))
WindowBeforeCall ==
    IF ~Answered THEN context_window
    ELSE LastN(SubSeq(log, 1, Len(log) - 1), MaxHistory)

\* C9: after any sequence of get_response calls the history holds the most
\* recent min(n, 5) turns in arrival order, and the history block of a
\* prompt holds exactly the most recent min(3, length) turns.
C9_BoundedHistory ==
    pc = "composer" =>
        /\ Len(context_window) = Min(Len(log), MaxHistory)
        /\ context_window = LastN(log, MaxHistory)
        /\ state = "FreeForm" =>
              /\ Len(prompt.history) = Min(RenderedTurns, Len(WindowBeforeCall))
              /\ prompt.history =
                    [i \in 1..Min(RenderedTurns, Len(WindowBeforeCall)) |->
                        [user |-> LastN(WindowBeforeCall, RenderedTurns)[i].user,
                         assistant |-> LastN(WindowBeforeCall, RenderedTurns)[i].assistant]]

C9_Witness ==
    /\ pc = "composer"
    /\ Len(log) = MaxCalls
    /\ Len(context_window) = MaxHistory
    /\ context_window[1].timestamp = MaxCalls - MaxHistory + 1
    /\ state = "FreeForm"
    /\ Len(prompt.history) = RenderedTurns

\* C10: the conversation history changes only through a completed FreeForm
\* exchange; a query answered in any other composer state leaves it
\* unchanged.
C10_HistoryOnlyFreeForm ==
    [][context_window' # context_window => state' = "FreeForm"]_vars

(***************************************************************************)
(* Properties of prompt composition                                        *)
(***************************************************************************)
ErrorKeywords == {k_error, k_log, k_exception, k_payload}
ServiceKeywords == {k_service, k_kafka, k_mongodb, k_api, k_downstream}
LaterStates == {"DirectLookup", "SolutionLookup", "RootCauseLookup", "Listing",
                "FreeForm"}

\* the document has a non-empty log under one of the two field names
HasLogContent(d) ==
    \/ Has(d, "Error_log") /\ d.Error_log # ""
    \/ /\ Has(d, "rootCause")
       /\ d.rootCause.type = "dict"
       /\ Has(d.rootCause, "analysis")
       /\ Get(d.rootCause.analysis, "logs", "") # ""

LogContent(d) ==
    IF Has(d, "Error_log") /\ d.Error_log # "" THEN d.Error_log
    ELSE d.rootCause.analysis.logs

\* C11: for a query with an error keyword, every candidate with a non-empty
\* log (literal field or rootCause.analysis.logs) is listed exactly once in
\* the ErrorLogExtraction output with its id, summary and log text, no other
\* candidate is listed, and without any log content composition goes on to
\* a later state.
C11_ErrorLogExtraction ==
    (pc = "prompted" /\ HasKeyword(ErrorKeywords)) =>
        IF \E i \in 1..Len(relevant_defects) : HasLogContent(relevant_defects[i])
        THEN /\ state = "ErrorLogExtraction"
             /\ \A i \in 1..Len(relevant_defects) :
                   HasLogContent(relevant_defects[i]) =>
                      /\ Cardinality({j \in 1..Len(prompt) :
                             prompt[j].id = relevant_defects[i].bug_id}) = 1
                      /\ \E j \in 1..Len(prompt) :
                            /\ prompt[j].id = relevant_defects[i].bug_id
                            /\ prompt[j].summary = relevant_defects[i].Defect_Summary
                            /\ prompt[j].log = LogContent(relevant_defects[i])
             /\ \A j \in 1..Len(prompt) :
                   \E i \in 1..Len(relevant_defects) :
                      /\ HasLogContent(relevant_defects[i])
                      /\ prompt[j].id = relevant_defects[i].bug_id
        ELSE state \in LaterStates

\* the summary of the document mentions the service name
Mentions(d, service) ==
    Has(d, "Defect_Summary") /\ contains(lower(d.Defect_Summary), service)

\* every candidate has a summary and a structured (or no) rootCause
WellFormedCandidates ==
    \A i \in 1..Len(relevant_defects) :
       /\ Has(relevant_defects[i], "Defect_Summary")
       /\ ~plain_get_raises(relevant_defects[i])

\* C12: for a query with a service keyword (and candidates that all have a
\* summary and a structured rootCause), when some candidate's summary
\* mentions a service name the output is the service-grouped listing, each
\* candidate under exactly the services its summary mentions and no empty
\* group; when no candidate mentions a service name composition goes on to
\* a later state.
C12_ServiceGrouped ==
    (pc = "prompted" /\ HasKeyword(ServiceKeywords) /\ WellFormedCandidates) =>
        IF \E i \in 1..Len(relevant_defects), s \in 1..Len(ServiceNames) :
              Mentions(relevant_defects[i], ServiceNames[s])
        THEN /\ state = "ServiceGrouped"
             /\ \A g \in 1..Len(prompt) : prompt[g].issues # <<>>
             /\ \A i \in 1..Len(relevant_defects), s \in 1..Len(ServiceNames) :
                   Mentions(relevant_defects[i], ServiceNames[s]) <=>
                      \E g \in 1..Len(prompt) :
                         /\ prompt[g].service = upper(ServiceNames[s])
                         /\ \E j \in 1..Len(prompt[g].issues) :
                               prompt[g].issues[j].id = relevant_defects[i].bug_id
        ELSE state \in LaterStates

(***************************************************************************)
(* Properties of the service, continued                                    *)
(***************************************************************************)
\* the request passed the identifier check and retrieval ended with no
\* candidate: nothing above the threshold, identifier not stored, or an
\* empty collection (the index built from it is None)
ZeroCandidates ==
    /\ pc = "responded"
    /\ IdTokens \ valid_defect_ids = {}
    /\ relevant_defects = <<>>
    /\ response \notin {Failure("provider"), Failure("resolve"), Failure("index")}

\* the answer is a no-matching-records message of the program
NoMatchAnswer ==
    /\ Answered
    /\ Has(response.message, "title")
    /\ response.message.title = "No matching records"

\* C13: a query whose retrieval yields zero candidates completes without
\* raising and is answered with an explicit no-matching-records message.
C13_EmptyResultMessage ==
    ZeroCandidates => NoMatchAnswer

(***************************************************************************)
(* Properties of prompt composition, continued                             *)
(***************************************************************************)
\* the rootCause of the document is a bare string
BareRootCause(d) == Has(d, "rootCause") /\ d.rootCause.type = "str"

CardStates == {"DirectLookup", "SolutionLookup", "RootCauseLookup"}

\* C14: with a candidate whose rootCause is a bare string (all candidates
\* having a summary and a rootCause), composition does not raise in any
\* composer state, and an identifier card for such a record shows the
\* string as its root-cause description.
C14_BareStringRootCause ==
    (/\ pc = "prompted"
     /\ \E i \in 1..Len(relevant_defects) : BareRootCause(relevant_defects[i])
     /\ \A i \in 1..Len(relevant_defects) :
           /\ Has(relevant_defects[i], "Defect_Summary")
           /\ Has(relevant_defects[i], "rootCause")) =>
        /\ response # Failure("compose")
        /\ state \in CardStates =>
              \A i \in 1..Len(relevant_defects) :
                 (/\ relevant_defects[i].bug_id = prompt.id
                  /\ BareRootCause(relevant_defects[i])) =>
                    prompt.root_cause = relevant_defects[i].rootCause.value

ExpectedFields == {"Defect_Summary", "owner", "solution", "status", "rootCause", "url"}

\* C15: with a candidate that lacks an expected field (and no bare-string
\* rootCause among the candidates), composition does not raise in any
\* composer state, and the Defect Details card renders a missing owner as
\* "Unassigned", a missing status as "Unknown" and a missing solution or
\* root cause with its sentinel.
C15_MissingFieldSentinels ==
    (/\ pc = "prompted"
     /\ \E i \in 1..Len(relevant_defects) :
           ExpectedFields \ DOMAIN relevant_defects[i] # {}
     /\ \A i \in 1..Len(relevant_defects) : ~BareRootCause(relevant_defects[i])) =>
        /\ response # Failure("compose")
        /\ state = "DirectLookup" =>
              \A i \in 1..Len(relevant_defects) :
                 relevant_defects[i].bug_id = prompt.id =>
                    /\ ~Has(relevant_defects[i], "owner") => prompt.owner = "Unassigned"
                    /\ ~Has(relevant_defects[i], "status") => prompt.status = "Unknown"
                    /\ ~Has(relevant_defects[i], "solution") =>
                          prompt.solution = "No solution specified"
                    /\ ~Has(relevant_defects[i], "rootCause") =>
                          prompt.root_cause = "No root cause specified"

(***************************************************************************)
(* Properties of the service: snapshot, history, lifecycle                 *)
(***************************************************************************)
\* the request went through similarity search on a built index, which
\* returned at least one position
SemanticPathServed ==
    /\ pc = "responded"
    /\ embedCalls = 1
    /\ Has(defects_llm, "index")
    /\ ~defects_llm.index.is_none
    /\ indices_scores # <<>>
    /\ response # Failure("provider")

\* C16: on the semantic path the handler resolves positions in the same
\* collection the index was built from at startup (same records, order and
\* length), so every returned position is resolved, to the record whose
\* summary was embedded at that position, whatever happened to the Record
\* Store since startup.
C16_PositionsResolveInSnapshot ==
    SemanticPathServed =>
        /\ load_defect_data(store) = defects_llm.data
        /\ Len(relevant_defects) = Len(indices_scores)
        /\ \A i \in 1..Len(relevant_defects) :
              relevant_defects[i].Defect_Summary =
                 defects_llm.index.rows[indices_scores[i][1] + 1]

\* the free-form exchanges completed before the request just served
EarlierExchanges ==
    IF Answered /\ state = "FreeForm" THEN SubSeq(log, 1, Len(log) - 1) ELSE log

\* C17: the prompt built for a free-form query served by the service holds,
\* as user/assistant lines, the most recent min(3, k) of the k free-form
\* exchanges the service completed before it.
C17_PromptCarriesHistory ==
    (pc = "session" /\ Answered /\ state = "FreeForm") =>
        prompt.history =
           [i \in 1..Min(RenderedTurns, Len(EarlierExchanges)) |->
               LastN(EarlierExchanges, RenderedTurns)[i]]

\* the registry holds a built index
IndexBuilt == Has(defects_llm, "index") /\ ~defects_llm.index.is_none

\* C18: a query is answered only by a fully initialized service: never when
\* startup failed or produced no index, and never after cleanup_resources
\* cleared the registry.
C18_ServedOnlyWhenInitialized ==
    (pc = "responded" /\ Answered) => (~cleanup_done /\ IndexBuilt)

Unscored(d) == "relevance_score" \notin DOMAIN d

\* C19: similarity retrieval leaves the record collection as loaded: the
\* relevance score round(score * 100, 2) is only on the candidates handed to
\* the composer, each a scored copy of the record at its position; no
\* record of the handler's collection, of the startup snapshot or of the
\* store carries a score, and candidates of the exact-id and listing paths
\* are unscored.
C19_ScoresOnlyOnCopies ==
    pc = "responded" =>
        /\ db_defect_data = load_defect_data(store)
        /\ \A i \in 1..Len(db_defect_data) : Unscored(db_defect_data[i])
        /\ Has(defects_llm, "data") =>
              \A i \in 1..Len(defects_llm.data) : Unscored(defects_llm.data[i])
        /\ embedCalls = 0 =>
              \A i \in 1..Len(relevant_defects) : Unscored(relevant_defects[i])
        /\ (embedCalls = 1 /\ relevant_defects # <<>>) =>
              \A i \in 1..Len(relevant_defects) :
                 /\ relevant_defects[i].relevance_score = relevance(indices_scores[i][2])
                 /\ \A k \in DOMAIN relevant_defects[i] \ {"relevance_score"} :
                       relevant_defects[i][k] = db_defect_data[indices_scores[i][1] + 1][k]

C19_Witness ==
    /\ pc = "responded"
    /\ Answered
    /\ embedCalls = 1
    /\ Len(relevant_defects) = 3
    /\ relevant_defects[1].relevance_score > relevant_defects[3].relevance_score
    /\ Len(db_defect_data) = 3

====
